---- MODULE Spec2Model ----
(***************************************************************************)
(* The header-field table of cocaine12/tables.go: an ordered list of       *)
(* HeaderFields with two lookup maps (byName, byNameValue) holding unique  *)
(* ids, an eviction counter, and the operations addEntry, evictOldest,     *)
(* search and idToIndex.                                                    *)
(***************************************************************************)
EXTENDS Integers, Sequences, FiniteSets, TLC

(* ------------------------------ bounds --------------------------------- *)

\* Total number of addEntry calls explored on one table.
MaxInserted == 4

(* ------------------------------ values --------------------------------- *)

\* uint64 arithmetic wraps; TLC's integers are 32-bit, so the wrap is taken
\* modulo the largest power of two whose sums TLC can still represent.  The
\* ids and counts explored from an empty table stay far below either modulus.
Modulus == 2^30

Names == {"k1", "k2"}

Values == {"v1", "v2", "v3"}

\* type HeaderField struct { Name, Value string; Sensitive bool }
HeaderField == [Name : Names, Value : Values, Sensitive : BOOLEAN]

\* HeaderField{}: the zero value written into vacated slots.
ZeroField == [Name |-> "", Value |-> "", Sensitive |-> FALSE]

pair(name, value) == [Name |-> name, Value |-> value, Sensitive |-> FALSE]

\* pairNameValue{f.Name, f.Value}
pairNameValue(f) == [name |-> f.Name, value |-> f.Value]

\* The fields handed to addEntry: two values under one name, one further
\* name, and one pair that is also added as a sensitive field.
AddedFields ==
    {pair("k1", "v1"), pair("k2", "v2"), pair("k1", "v3"),
     [Name |-> "k1", Value |-> "v1", Sensitive |-> TRUE]}

\* Reading a Go map: a missing key reads as the zero value.
lookup(m, k) == IF k \in DOMAIN m THEN m[k] ELSE 0

\* Writing a Go map: m[k] = v.
store(m, k, v) == [x \in (DOMAIN m) \cup {k} |-> IF x = k THEN v ELSE m[x]]

\* make(map[...]uint64)
EmptyMap == [x \in {} |-> 0]

(* ------------------------------ state ---------------------------------- *)

VARIABLES
    ents,         \* t.ents
    evictCount,   \* t.evictCount
    byName,       \* t.byName
    byNameValue,  \* t.byNameValue
    isStatic,     \* t == staticTable
    last,         \* the last call made on the table and what it returned
    inserted      \* history: every field ever passed to addEntry, in order

vars == <<ents, evictCount, byName, byNameValue, isStatic, last, inserted>>

\* The table as one value, for the operators below.
Table ==
    [ents |-> ents, evictCount |-> evictCount, byName |-> byName,
     byNameValue |-> byNameValue, static |-> isStatic]

(* ---------------------------- operations ------------------------------- *)

\* addEntry with the id computed without the eviction count.
addEntry_NoEvictCount(t, f) ==
    LET id == (Len(t.ents) + 1) % Modulus
    IN  [t EXCEPT !.byName = store(t.byName, f.Name, id),
                  !.byNameValue = store(t.byNameValue, pairNameValue(f), id),
                  !.ents = Append(t.ents, f)]

\* addEntry with the id taken from the 0-based position of the new entry.
addEntry_IdFromPosition(t, f) ==
    LET id == (Len(t.ents) + t.evictCount) % Modulus
    IN  [t EXCEPT !.byName = store(t.byName, f.Name, id),
                  !.byNameValue = store(t.byNameValue, pairNameValue(f), id),
                  !.ents = Append(t.ents, f)]

\* addEntry without the write to byNameValue.
addEntry_NameOnly(t, f) ==
    LET id == (Len(t.ents) + t.evictCount + 1) % Modulus
    IN  [t EXCEPT !.byName = store(t.byName, f.Name, id),
                  !.ents = Append(t.ents, f)]

\* func (t *headerFieldTable) addEntry(f HeaderField)
addEntry(t, f) ==
    LET id == (Len(t.ents) + t.evictCount + 1) % Modulus
    IN  [t EXCEPT !.byName = store(t.byName, f.Name, id),
                  !.byNameValue = store(t.byNameValue, pairNameValue(f), id),
                  !.ents = Append(t.ents, f)]

\* The loop body with the clears made unconditional.
evictStep_AlwaysClear(t, k) ==
    LET f == t.ents[k + 1]
    IN  [t EXCEPT !.byName = store(t.byName, f.Name, 0),
                  !.byNameValue = store(t.byNameValue, pairNameValue(f), 0)]

\* The loop body with the id taken as the storage position alone.
evictStep_PositionAsId(t, k) ==
    LET f  == t.ents[k + 1]
        id == (k + 1) % Modulus
        p  == pairNameValue(f)
    IN  [t EXCEPT
           !.byName = IF lookup(t.byName, f.Name) = id
                      THEN store(t.byName, f.Name, 0) ELSE t.byName,
           !.byNameValue = IF lookup(t.byNameValue, p) = id
                           THEN store(t.byNameValue, p, 0) ELSE t.byNameValue]

\* The loop body with the clears left out.
evictStep_NoClear(t, k) == t

\* One iteration of the loop of evictOldest over k (0-based, as in the code).
evictStep(t, k) ==
    LET f  == t.ents[k + 1]
        id == (t.evictCount + k + 1) % Modulus
        p  == pairNameValue(f)
    IN  [t EXCEPT
           !.byName = IF lookup(t.byName, f.Name) = id
                      THEN store(t.byName, f.Name, 0) ELSE t.byName,
           !.byNameValue = IF lookup(t.byNameValue, p) = id
                           THEN store(t.byNameValue, p, 0) ELSE t.byNameValue]

\* for k := 0; k < n; k++ { ... }
RECURSIVE evictLoop(_, _, _)
evictLoop(t, k, n) ==
    IF k < n THEN evictLoop(evictStep(t, k), k + 1, n) ELSE t

\* The truncation without the copy: the newest entries are dropped.
dropOldest_KeepPrefix(s, n) == SubSeq(s, 1, Len(s) - n)

\* copy(t.ents, t.ents[n:]); zero the vacated tail; t.ents = t.ents[:len-n]
dropOldest(s, n) ==
    LET copied == [k \in 1..Len(s) |-> IF k <= Len(s) - n THEN s[k + n] ELSE s[k]]
        zeroed == [k \in 1..Len(s) |-> IF k > Len(s) - n THEN ZeroField ELSE copied[k]]
    IN  SubSeq(zeroed, 1, Len(s) - n)

\* evictOldest with n clamped to the table length instead of the panic.
evictOldest_Clamp(t, n) ==
    LET m  == IF n > Len(t.ents) THEN Len(t.ents) ELSE n
        t1 == evictLoop(t, 0, m)
        t2 == [t1 EXCEPT !.ents = dropOldest(t1.ents, m)]
    IN  IF m < 0
        THEN [t |-> t, panic |-> TRUE]
        ELSE [t |-> [t2 EXCEPT !.evictCount = (t2.evictCount + m) % Modulus],
              panic |-> FALSE]

\* evictOldest without the overflow test: the wrapped count is stored.
evictOldest_NoOverflowCheck(t, n) ==
    IF n > Len(t.ents) \/ n < 0
    THEN [t |-> t, panic |-> TRUE]
    ELSE LET t1 == evictLoop(t, 0, n)
             t2 == [t1 EXCEPT !.ents = dropOldest(t1.ents, n)]
         IN  [t |-> [t2 EXCEPT !.evictCount = (t2.evictCount + n) % Modulus],
              panic |-> FALSE]

\* func (t *headerFieldTable) evictOldest(n int): the table it leaves and
\* whether it panicked.
evictOldest(t, n) ==
    IF n > Len(t.ents)
    THEN [t |-> t, panic |-> TRUE]
    ELSE IF n < 0
    THEN \* the loop runs zero times and t.ents[n:] is out of range
         [t |-> t, panic |-> TRUE]
    ELSE LET t1 == evictLoop(t, 0, n)
             t2 == [t1 EXCEPT !.ents = dropOldest(t1.ents, n)]
         IN  IF (t2.evictCount + n) % Modulus < t2.evictCount
             THEN [t |-> t2, panic |-> TRUE]
             ELSE [t |-> [t2 EXCEPT !.evictCount = (t2.evictCount + n) % Modulus],
                   panic |-> FALSE]

\* idToIndex without the reversal of dynamic tables.
idToIndex_NoReverse(t, id) ==
    IF id <= t.evictCount
    THEN [i |-> 0, panic |-> TRUE]
    ELSE [i |-> (((id - t.evictCount - 1) % Modulus) + 1) % Modulus, panic |-> FALSE]

\* idToIndex reversing every table, the static one included.
idToIndex_AlwaysReverse(t, id) ==
    IF id <= t.evictCount
    THEN [i |-> 0, panic |-> TRUE]
    ELSE [i |-> (Len(t.ents) - ((id - t.evictCount - 1) % Modulus)) % Modulus,
          panic |-> FALSE]

\* idToIndex reversing to a 0-based index.
idToIndex_ZeroBased(t, id) ==
    IF id <= t.evictCount
    THEN [i |-> 0, panic |-> TRUE]
    ELSE LET k == (id - t.evictCount - 1) % Modulus
         IN  IF ~t.static
             THEN [i |-> (Len(t.ents) - k - 1) % Modulus, panic |-> FALSE]
             ELSE [i |-> (k + 1) % Modulus, panic |-> FALSE]

\* idToIndex taking the id as a storage position, without the eviction count.
idToIndex_NoEvictCount(t, id) ==
    IF id <= t.evictCount
    THEN [i |-> 0, panic |-> TRUE]
    ELSE LET k == (id - 1) % Modulus
         IN  IF ~t.static
             THEN [i |-> (Len(t.ents) - k) % Modulus, panic |-> FALSE]
             ELSE [i |-> (k + 1) % Modulus, panic |-> FALSE]

\* func (t *headerFieldTable) idToIndex(id uint64) uint64
idToIndex(t, id) ==
    IF id <= t.evictCount
    THEN [i |-> 0, panic |-> TRUE]
    ELSE LET k == (id - t.evictCount - 1) % Modulus
         IN  IF ~t.static
             THEN [i |-> (Len(t.ents) - k) % Modulus, panic |-> FALSE]
             ELSE [i |-> (k + 1) % Modulus, panic |-> FALSE]

\* What search returns for a found id.
found(t, id, nameValueMatch) ==
    LET r == idToIndex(t, id)
    IN  [i |-> r.i, nameValueMatch |-> nameValueMatch /\ ~r.panic, panic |-> r.panic]

\* search probing the name before the pair.
search_NameFirst(t, f) ==
    IF lookup(t.byName, f.Name) # 0
    THEN found(t, lookup(t.byName, f.Name), FALSE)
    ELSE IF ~f.Sensitive /\ lookup(t.byNameValue, pairNameValue(f)) # 0
    THEN found(t, lookup(t.byNameValue, pairNameValue(f)), TRUE)
    ELSE [i |-> 0, nameValueMatch |-> FALSE, panic |-> FALSE]

\* search without the test of f.Sensitive.
search_IgnoreSensitive(t, f) ==
    IF lookup(t.byNameValue, pairNameValue(f)) # 0
    THEN found(t, lookup(t.byNameValue, pairNameValue(f)), TRUE)
    ELSE IF lookup(t.byName, f.Name) # 0
    THEN found(t, lookup(t.byName, f.Name), FALSE)
    ELSE [i |-> 0, nameValueMatch |-> FALSE, panic |-> FALSE]

\* func (t *headerFieldTable) search(f HeaderField) (i uint64, nameValueMatch bool)
search(t, f) ==
    IF ~f.Sensitive /\ lookup(t.byNameValue, pairNameValue(f)) # 0
    THEN found(t, lookup(t.byNameValue, pairNameValue(f)), TRUE)
    ELSE IF lookup(t.byName, f.Name) # 0
    THEN found(t, lookup(t.byName, f.Name), FALSE)
    ELSE [i |-> 0, nameValueMatch |-> FALSE, panic |-> FALSE]

(* ------------------------------ actions -------------------------------- *)

\* t := &headerFieldTable{}; t.init()  -- a dynamic table
Init ==
    /\ ents = <<>>
    /\ evictCount = 0
    /\ byName = EmptyMap
    /\ byNameValue = EmptyMap
    /\ isStatic = FALSE
    /\ last = [op |-> "init", panic |-> FALSE]
    /\ inserted = <<>>

\* A call t.addEntry(f).
AddEntry(f) ==
    /\ ~last.panic
    /\ Len(inserted) < MaxInserted
    /\ LET t == addEntry(Table, f)
       IN  /\ ents' = t.ents
           /\ evictCount' = t.evictCount
           /\ byName' = t.byName
           /\ byNameValue' = t.byNameValue
    /\ inserted' = Append(inserted, f)
    /\ last' = [op |-> "addEntry", f |-> f, panic |-> FALSE]
    /\ UNCHANGED isStatic

\* A call t.evictOldest(n).
EvictOldest(n) ==
    /\ ~last.panic
    /\ LET r == evictOldest(Table, n)
       IN  /\ ents' = r.t.ents
           /\ evictCount' = r.t.evictCount
           /\ byName' = r.t.byName
           /\ byNameValue' = r.t.byNameValue
           /\ last' = [op |-> "evictOldest", n |-> n, panic |-> r.panic]
    /\ UNCHANGED <<isStatic, inserted>>

\* A call t.search(f) whose map reads leave the read keys in the maps.
Search_InsertsKeys(f) ==
    /\ ~last.panic
    /\ LET r == search(Table, f)
       IN  last' = [op |-> "search", f |-> f, i |-> r.i,
                    nameValueMatch |-> r.nameValueMatch, panic |-> r.panic]
    /\ byName' = store(byName, f.Name, lookup(byName, f.Name))
    /\ byNameValue' = store(byNameValue, pairNameValue(f),
                            lookup(byNameValue, pairNameValue(f)))
    /\ UNCHANGED <<ents, evictCount, isStatic, inserted>>

\* A call t.search(f).
Search(f) ==
    /\ ~last.panic
    /\ LET r == search(Table, f)
       IN  last' = [op |-> "search", f |-> f, i |-> r.i,
                    nameValueMatch |-> r.nameValueMatch, panic |-> r.panic]
    /\ UNCHANGED <<ents, evictCount, byName, byNameValue, isStatic, inserted>>

Next ==
    \/ \E f \in AddedFields : AddEntry(f)
    \/ \E n \in -1..(MaxInserted + 1) : EvictOldest(n)
    \/ \E f \in HeaderField : Search(f)

Spec == Init /\ [][Next]_vars

(* ------------------------- reading the table --------------------------- *)

\* Every name/value pair a query can carry.
Pairs == {pairNameValue(f) : f \in HeaderField}

\* A non-sensitive query for a pair.
query(p) == [Name |-> p.name, Value |-> p.value, Sensitive |-> FALSE]

\* "The unique id for ents[k] is k + evictCount + 1": here for the k-th
\* element of the sequence, counted from 1.
uniqueId(k) == k + evictCount

\* "the return value i actually refers to the entry t.ents[t.len()-i]":
\* the index of the k-th element of the sequence, counted from 1.
indexOf(k) == Len(ents) - (k - 1)

\* The largest element of a set of positions, 0 when there is none.
maxOf(S) == IF S = {} THEN 0 ELSE CHOOSE k \in S : \A j \in S : j <= k

\* Position of the newest entry in ents with name x, 0 when there is none.
newestNamed(x) == maxOf({k \in 1..Len(ents) : ents[k].Name = x})

\* Position of the newest entry in ents with pair p, 0 when there is none.
newestPair(p) == maxOf({k \in 1..Len(ents) : pairNameValue(ents[k]) = p})

\* The entries that were added and are no longer in ents.
evicted == SubSeq(inserted, 1, Len(inserted) - Len(ents))

\* Names of entries that have been evicted.
evictedNames == {evicted[k].Name : k \in 1..Len(evicted)}

\* A search result.
result(i, nameValueMatch) ==
    [i |-> i, nameValueMatch |-> nameValueMatch, panic |-> FALSE]

(* ------------------------------ claims --------------------------------- *)

\* C1: in every reachable state byName[x] is the unique id of the newest
\* entry named x in ents, or 0/absent when there is none, and byNameValue[p]
\* is the unique id of the newest entry with exactly the pair p, or 0/absent.
C1_IndexesNewestLive ==
    /\ \A x \in Names :
         lookup(byName, x) =
            IF newestNamed(x) = 0 THEN 0 ELSE uniqueId(newestNamed(x))
    /\ \A p \in Pairs :
         lookup(byNameValue, p) =
            IF newestPair(p) = 0 THEN 0 ELSE uniqueId(newestPair(p))

\* C1 witness: after an eviction one name has been cleared to 0 while
\* another still points at a surviving entry.
C1_Witness ==
    /\ last.op = "evictOldest"
    /\ evictCount > 0
    /\ \E x \in DOMAIN byName : byName[x] = 0
    /\ \E y \in DOMAIN byName : byName[y] > evictCount

\* C2 as stated: once an entry named x has been evicted, a search for any
\* field named x returns the index of every later entry B named x that is
\* still in ents.
C2_Original ==
    \A x \in evictedNames :
      \A k \in 1..Len(ents) :
        ents[k].Name = x =>
          \A f \in HeaderField :
            f.Name = x => search(Table, f).i = indexOf(k)

\* C2 (amended): once an entry named x has been evicted while an entry named
\* x is still in ents, a search for a field named x does not abort and
\* returns the index of a surviving entry: the newest entry with the query's
\* exact pair on an exact match, otherwise the newest entry named x.
C2_IndexReuse ==
    \A x \in evictedNames :
      newestNamed(x) # 0 =>
        \A f \in HeaderField :
          f.Name = x =>
            LET r == search(Table, f)
            IN  /\ ~r.panic
                /\ r.nameValueMatch =>
                     /\ newestPair(pairNameValue(f)) # 0
                     /\ r.i = indexOf(newestPair(pairNameValue(f)))
                /\ ~r.nameValueMatch => r.i = indexOf(newestNamed(x))

\* C2 witness: a name has an evicted entry and a surviving one, and the
\* last call searched for that name and got the survivor's index.
C2_Witness ==
    /\ last.op = "search"
    /\ last.f.Name \in evictedNames
    /\ newestNamed(last.f.Name) # 0
    /\ last.i = indexOf(newestNamed(last.f.Name))

\* C3: evictOldest(n) with 0 <= n <= len(ents) leaves ents equal to the
\* former sequence without its first n elements and adds exactly n to
\* evictCount.
C3_EvictionSafety ==
    [][(last'.op = "evictOldest" /\ ~last'.panic) =>
          /\ ents' = SubSeq(ents, last'.n + 1, Len(ents))
          /\ evictCount' = evictCount + last'.n]_vars

\* C3 witness: an eviction of two entries that left survivors.
C3_Witness ==
    /\ last.op = "evictOldest"
    /\ ~last.panic
    /\ last.n >= 2
    /\ Len(ents) >= 2

\* The entries of ents carry pairwise distinct pairs and none is sensitive.
distinctPlain ==
    /\ \A j, k \in 1..Len(ents) :
         j # k => pairNameValue(ents[j]) # pairNameValue(ents[k])
    /\ \A k \in 1..Len(ents) : ~ents[k].Sensitive

\* C4: in a dynamic table whose entries have pairwise distinct pairs and
\* are all non-sensitive, searching for the entry at storage position k
\* (0 = oldest) is an exact match with index len(ents) - k.
C4_DynamicIndexReversal ==
    (~isStatic /\ distinctPlain) =>
        \A k \in 1..Len(ents) :
            search(Table, ents[k]) = result(Len(ents) - (k - 1), TRUE)

\* C4 witness: three distinct plain entries after an eviction, and the last
\* call searched for the oldest of them and got index 3.
C4_Witness ==
    /\ distinctPlain
    /\ Len(ents) = 3
    /\ evictCount > 0
    /\ last.op = "search"
    /\ last.f = ents[1]
    /\ last.i = 3
    /\ last.nameValueMatch

\* C5: for a non-sensitive query f, if an entry with f's pair is in the
\* table the result is exact with the index of the newest such entry, even
\* when a newer entry has the same name and another value; the result is
\* name-only, with the index of the newest entry named f.Name, only when no
\* entry has f's pair.
C5_LookupOrder ==
    ~isStatic =>
      \A f \in HeaderField :
        ~f.Sensitive =>
          LET r  == search(Table, f)
              kp == newestPair(pairNameValue(f))
              kn == newestNamed(f.Name)
          IN  /\ kp # 0 => r = result(indexOf(kp), TRUE)
              /\ (kp = 0 /\ kn # 0) => r = result(indexOf(kn), FALSE)
              /\ (r.i # 0 /\ ~r.nameValueMatch) => kp = 0

\* C5 witness: the last call searched, non-sensitively, for a pair whose
\* newest entry is older than a newer entry of the same name, and got the
\* exact match.
C5_Witness ==
    /\ last.op = "search"
    /\ ~last.f.Sensitive
    /\ newestPair(pairNameValue(last.f)) # 0
    /\ newestPair(pairNameValue(last.f)) < newestNamed(last.f.Name)
    /\ last.nameValueMatch
    /\ last.i = indexOf(newestPair(pairNameValue(last.f)))

\* Pairs that have been added as sensitive fields and never as plain ones.
sensitiveOnly ==
    {p \in Pairs :
        /\ \E k \in 1..Len(inserted) :
             pairNameValue(inserted[k]) = p /\ inserted[k].Sensitive
        /\ \A k \in 1..Len(inserted) :
             pairNameValue(inserted[k]) = p => inserted[k].Sensitive}

\* C6: after a pair has been added as a sensitive field and never as a
\* non-sensitive one, a non-sensitive search for that pair never returns an
\* exact match.
C6_SensitiveNeverExact ==
    \A p \in sensitiveOnly : ~search(Table, query(p)).nameValueMatch

\* C7: a sensitive query never returns an exact match; when an entry with
\* its name is in the table it returns the non-zero index of the newest
\* entry with that name, even when an entry with its exact pair is there.
C7_SensitiveQuery ==
    ~isStatic =>
      \A f \in HeaderField :
        f.Sensitive =>
          LET r  == search(Table, f)
              kn == newestNamed(f.Name)
          IN  /\ ~r.nameValueMatch
              /\ ~r.panic
              /\ kn # 0 => (r.i = indexOf(kn) /\ r.i # 0)

\* C7 witness: the last call was a sensitive search for a pair that is in
\* the table below a newer entry of the same name, and it got the newer
\* entry's index as a name-only match.
C7_Witness ==
    /\ last.op = "search"
    /\ last.f.Sensitive
    /\ newestPair(pairNameValue(last.f)) # 0
    /\ newestPair(pairNameValue(last.f)) < newestNamed(last.f.Name)
    /\ ~last.nameValueMatch
    /\ last.i = indexOf(newestNamed(last.f.Name))

\* ("k1","v1"), ("k2","v2"), ("k1","v3") added to an empty dynamic table,
\* nothing evicted.
roundTripTable ==
    /\ ~isStatic
    /\ inserted = <<pair("k1", "v1"), pair("k2", "v2"), pair("k1", "v3")>>
    /\ ents = inserted
    /\ evictCount = 0

\* C8 as stated: in the round trip table search(("k1","v3")) is an exact
\* match at index 1 and search(("k1","v1")) a name-only match at index 3.
C8_Original ==
    roundTripTable =>
        /\ search(Table, pair("k1", "v3")) = result(1, TRUE)
        /\ search(Table, pair("k1", "v1")) = result(3, FALSE)

\* C8 (amended): in the round trip table search(("k1","v3")) is an exact
\* match at index 1 and search(("k1","v1")) is an exact match at index 3.
C8_RoundTrip ==
    roundTripTable =>
        /\ search(Table, pair("k1", "v3")) = result(1, TRUE)
        /\ search(Table, pair("k1", "v1")) = result(3, TRUE)

\* C8 witness: the round trip table, just searched for ("k1","v1").
C8_Witness ==
    /\ roundTripTable
    /\ last.op = "search"
    /\ last.f = pair("k1", "v1")
    /\ last.i = 3

\* C9: search never aborts; it returns (0, false) exactly when no entry in
\* ents has the query's name, and a non-zero index whenever one has.
C9_NoMatch ==
    \A f \in HeaderField :
        LET r == search(Table, f)
        IN  /\ ~r.panic
            /\ (r.i = 0 /\ ~r.nameValueMatch) <=> (newestNamed(f.Name) = 0)
            /\ newestNamed(f.Name) # 0 => r.i # 0

\* C9 witness: every entry with some name has been evicted, other entries
\* remain, and the last call searched for that name and got (0, false).
C9_Witness ==
    /\ last.op = "search"
    /\ last.f.Name \in evictedNames
    /\ newestNamed(last.f.Name) = 0
    /\ ents # <<>>
    /\ last.i = 0
    /\ ~last.nameValueMatch
    /\ ~last.panic

\* C10: evictOldest(n) with n > len(ents) panics and leaves ents,
\* evictCount, byName and byNameValue as they were.
C10_OverEvictionFatal ==
    [][(last'.op = "evictOldest" /\ last'.n > Len(ents)) =>
          /\ last'.panic
          /\ ents' = ents
          /\ evictCount' = evictCount
          /\ byName' = byName
          /\ byNameValue' = byNameValue]_vars

\* C10 witness: an over-eviction on a non-empty table has panicked.
C10_Witness ==
    /\ last.op = "evictOldest"
    /\ last.panic
    /\ ents # <<>>
    /\ last.n > Len(ents)

\* The table one step later, for the step properties below.
TableNext ==
    [ents |-> ents', evictCount |-> evictCount', byName |-> byName',
     byNameValue |-> byNameValue', static |-> isStatic']

\* C11: the k-th call of addEntry, counting the entries evicted since,
\* assigns the unique id k = len(ents before the append) + evictCount + 1 and
\* stores it under the field's name and pair; so ids rise by one per call,
\* with no gap or repeat, and an evicted entry's id is not given out again.
C11_InsertionMonotonic ==
    [][(last'.op = "addEntry" /\ inserted' # inserted) =>
          LET id == lookup(byName', last'.f.Name)
          IN  /\ id = Len(inserted')
              /\ id = Len(ents) + evictCount + 1
              /\ lookup(byNameValue', pairNameValue(last'.f)) = id
              /\ \A x \in DOMAIN byName : byName[x] < id
              /\ \A p \in DOMAIN byNameValue : byNameValue[p] < id
              /\ Len(inserted) = Len(ents) + evictCount]_vars

\* C11 witness: the fourth addEntry, made after two entries were evicted,
\* stored id 4.
C11_Witness ==
    /\ last.op = "addEntry"
    /\ evictCount >= 2
    /\ Len(inserted) = 4
    /\ byName[last.f.Name] = 4

(* --------------------------- the static table -------------------------- *)

\* The t.addEntry(pair(...)) statements of newStaticTable, in order.
StaticEntries ==
    <<
       pair(":authority", ""), pair(":method", "GET"),
       pair(":method", "POST"), pair(":path", "/"),
       pair(":path", "/index.html"), pair(":scheme", "http"),
       pair(":scheme", "https"), pair(":status", "200"),
       pair(":status", "204"), pair(":status", "206"),
       pair(":status", "304"), pair(":status", "400"),
       pair(":status", "404"), pair(":status", "500"),
       pair("accept-charset", ""), pair("accept-encoding", "gzip, deflate"),
       pair("accept-language", ""), pair("accept-ranges", ""),
       pair("accept", ""), pair("access-control-allow-origin", ""),
       pair("age", ""), pair("allow", ""),
       pair("authorization", ""), pair("cache-control", ""),
       pair("content-disposition", ""), pair("content-encoding", ""),
       pair("content-language", ""), pair("content-length", ""),
       pair("content-location", ""), pair("content-range", ""),
       pair("content-type", ""), pair("cookie", ""),
       pair("date", ""), pair("etag", ""),
       pair("expect", ""), pair("expires", ""),
       pair("from", ""), pair("host", ""),
       pair("if-match", ""), pair("if-modified-since", ""),
       pair("if-none-match", ""), pair("if-range", ""),
       pair("if-unmodified-since", ""), pair("last-modified", ""),
       pair("link", ""), pair("location", ""),
       pair("max-forwards", ""), pair("proxy-authenticate", ""),
       pair("proxy-authorization", ""), pair("range", ""),
       pair("referer", ""), pair("refresh", ""),
       pair("retry-after", ""), pair("server", ""),
       pair("set-cookie", ""), pair("strict-transport-security", ""),
       pair("transfer-encoding", ""), pair("user-agent", ""),
       pair("vary", ""), pair("via", ""),
       pair("www-authenticate", ""), pair("", ""),
       pair("", ""), pair("", ""),
       pair("", ""), pair("", ""),
       pair("", ""), pair("", ""),
       pair("", ""), pair("", ""),
       pair("", ""), pair("trace_id", ""),
       pair("span_id", ""), pair("parent_id", "")
    >>

\* A value no static entry carries, and a name no static entry carries.
OtherValue == "other"

OtherName == "x-other"

\* The fields searched for in the static table: each entry, the same field
\* marked sensitive, its name with another value, and a name not in the table.
StaticQueries ==
    UNION {{StaticEntries[k],
            [StaticEntries[k] EXCEPT !.Sensitive = TRUE],
            pair(StaticEntries[k].Name, OtherValue)} : k \in 1..Len(StaticEntries)}
      \cup {pair(OtherName, "")}

\* The next t.addEntry(pair(...)) statement of newStaticTable; staticTable
\* is not assigned yet.
BuildStatic ==
    /\ ~isStatic
    /\ Len(inserted) < Len(StaticEntries)
    /\ LET f == StaticEntries[Len(inserted) + 1]
           t == addEntry(Table, f)
       IN  /\ ents' = t.ents
           /\ evictCount' = t.evictCount
           /\ byName' = t.byName
           /\ byNameValue' = t.byNameValue
           /\ inserted' = Append(inserted, f)
           /\ last' = [op |-> "addEntry", f |-> f, panic |-> FALSE]
    /\ UNCHANGED isStatic

\* var staticTable = newStaticTable(): the table returned becomes staticTable.
PublishStatic ==
    /\ ~isStatic
    /\ Len(inserted) = Len(StaticEntries)
    /\ isStatic' = TRUE
    /\ last' = [op |-> "init", panic |-> FALSE]
    /\ UNCHANGED <<ents, evictCount, byName, byNameValue, inserted>>

\* A call staticTable.search(f), made once the package is initialised.
SearchStatic(f) ==
    /\ isStatic
    /\ Search(f)

NextStatic ==
    \/ BuildStatic
    \/ PublishStatic
    \/ \E f \in StaticQueries : SearchStatic(f)

SpecStatic == Init /\ [][NextStatic]_vars

\* C12: on the static table nothing is evicted, every pre-populated pair is
\* found exactly at the 1-based insertion position of the last entry with
\* that pair ((":authority","") at 1, (":method","GET") at 2), and a
\* name-only match gives the insertion position of the last entry with that
\* name.
C12_StaticIndexing ==
    isStatic =>
        /\ ents = StaticEntries
        /\ evictCount = 0
        /\ search(Table, pair(":authority", "")) = result(1, TRUE)
        /\ search(Table, pair(":method", "GET")) = result(2, TRUE)
        /\ \A k \in 1..Len(ents) :
             LET f == ents[k]
             IN  /\ search(Table, f) = result(newestPair(pairNameValue(f)), TRUE)
                 /\ search(Table, pair(f.Name, OtherValue)) =
                        result(newestNamed(f.Name), FALSE)
                 /\ search(Table, [f EXCEPT !.Sensitive = TRUE]) =
                        result(newestNamed(f.Name), FALSE)

\* C12 witness: the static table was searched for ":method" with a value it
\* does not hold and answered with the position of (":method","POST").
C12_Witness ==
    /\ isStatic
    /\ last.op = "search"
    /\ last.f = pair(":method", OtherValue)
    /\ last.i = 3
    /\ ~last.nameValueMatch

(* ------------------------- further claims ------------------------------ *)

WrapStart == Modulus - 3

\* A map whose keys have all been cleared by evictions.
clearedMap(keys) == [x \in keys |-> 0]

\* A dynamic table after WrapStart entries were added and all evicted: it is
\* empty and every key it ever held reads 0.  The calls before this state
\* are not kept in the history.
InitWrap ==
    /\ ents = <<>>
    /\ evictCount = WrapStart
    /\ byName = clearedMap({f.Name : f \in AddedFields})
    /\ byNameValue = clearedMap({pairNameValue(f) : f \in AddedFields})
    /\ isStatic = FALSE
    /\ last = [op |-> "init", panic |-> FALSE]
    /\ inserted = <<>>

SpecWrap == InitWrap /\ [][Next]_vars

\* C14: evictCount never decreases in a step, and evictOldest(n) with
\* 0 <= n <= len(ents) whose evictCount + n leaves the counter's range
\* panics and does not store a wrapped count.
C14_EvictCountMonotonic ==
    [][/\ evictCount' >= evictCount
       /\ (/\ last'.op = "evictOldest"
           /\ last'.n >= 0
           /\ last'.n <= Len(ents)
           /\ evictCount + last'.n >= Modulus)
          => (last'.panic /\ evictCount' = evictCount)]_vars

\* C14 witness: an evictOldest(n) within the table's length panicked on
\* the overflow test: n entries have left ents and evictCount did not move.
C14_Witness ==
    /\ last.op = "evictOldest"
    /\ last.panic
    /\ last.n >= 1
    /\ evictCount + last.n >= Modulus
    /\ Len(inserted) - Len(ents) = (evictCount - WrapStart) + last.n

\* C15: in the static table ("www-authenticate","") has index 69, the last
\* ("","") placeholder has index 79, and ("trace_id",""), ("span_id",""),
\* ("parent_id","") are found at 80, 81 and 82.
C15_FixedIndices ==
    isStatic =>
        /\ search(Table, pair("www-authenticate", "")) = result(69, TRUE)
        /\ search(Table, pair("", "")) = result(79, TRUE)
        /\ search(Table, pair("trace_id", "")) = result(80, TRUE)
        /\ search(Table, pair("span_id", "")) = result(81, TRUE)
        /\ search(Table, pair("parent_id", "")) = result(82, TRUE)

\* C16: on a dynamic table, a search that returns a non-zero index i has
\* 1 <= i <= len(ents), the entry ents[len(ents) - i] carries the query's
\* name, and it carries the query's value too when the match is exact.
C16_SearchSound ==
    ~isStatic =>
      \A f \in HeaderField :
        LET r == search(Table, f)
        IN  (~r.panic /\ r.i # 0) =>
              /\ 1 <= r.i
              /\ r.i <= Len(ents)
              /\ ents[Len(ents) - r.i + 1].Name = f.Name
              /\ r.nameValueMatch => ents[Len(ents) - r.i + 1].Value = f.Value

\* C16 witness: after an eviction, a search returned an exact match at
\* index 2 of three entries, and the entry there carries the query's pair.
C16_Witness ==
    /\ last.op = "search"
    /\ evictCount > 0
    /\ Len(ents) = 3
    /\ last.i = 2
    /\ last.nameValueMatch
    /\ pairNameValue(ents[2]) = pairNameValue(last.f)

\* C17: every non-zero id stored in byName or byNameValue lies in
\* evictCount < id <= evictCount + len(ents), so no search makes idToIndex
\* panic.
C17_NoStaleId ==
    /\ \A x \in DOMAIN byName :
         byName[x] # 0 =>
            (evictCount < byName[x] /\ byName[x] <= evictCount + Len(ents))
    /\ \A p \in DOMAIN byNameValue :
         byNameValue[p] # 0 =>
            (evictCount < byNameValue[p]
               /\ byNameValue[p] <= evictCount + Len(ents))
    /\ \A f \in HeaderField : ~search(Table, f).panic
    /\ last.op = "search" => ~last.panic

\* C17 witness: after evictions the maps hold a cleared pair next to the id
\* of a surviving entry, and the last search for a cleared pair returned.
C17_Witness ==
    /\ last.op = "search"
    /\ ~last.panic
    /\ evictCount >= 2
    /\ ents # <<>>
    /\ pairNameValue(last.f) \in DOMAIN byNameValue
    /\ byNameValue[pairNameValue(last.f)] = 0
    /\ \E p \in DOMAIN byNameValue : byNameValue[p] > evictCount

\* C18: an evictOldest(n) that returns leaves every search result that
\* pointed at a surviving entry (index <= len(ents) - n before the call)
\* exactly as it was, index and match kind.
C18_SurvivorsKeepIndex ==
    [][(last'.op = "evictOldest" /\ ~last'.panic /\ ~isStatic) =>
          \A f \in HeaderField :
             LET r == search(Table, f)
             IN  (~r.panic /\ r.i # 0 /\ r.i <= Len(ents) - last'.n) =>
                    search(TableNext, f) = r]_vars

\* C18 witness: an eviction removed an entry and left at least two, one of
\* them with the name of an evicted entry.
C18_Witness ==
    /\ last.op = "evictOldest"
    /\ ~last.panic
    /\ last.n >= 1
    /\ Len(ents) >= 2
    /\ \E k \in 1..Len(ents) : ents[k].Name \in evictedNames

\* C19: addEntry(g) leaves evictCount and the existing entries unchanged;
\* afterwards a search for g, when g is not sensitive, returns (1, true),
\* and every query with another name that had a non-zero result (i, exact)
\* now has (i + 1, exact).
C19_InsertShiftsByOne ==
    [][(last'.op = "addEntry" /\ inserted' # inserted /\ ~isStatic) =>
          LET g == last'.f
          IN  /\ evictCount' = evictCount
              /\ Len(ents') = Len(ents) + 1
              /\ SubSeq(ents', 1, Len(ents)) = ents
              /\ ents'[Len(ents')] = g
              /\ ~g.Sensitive => search(TableNext, g) = result(1, TRUE)
              /\ \A f \in HeaderField :
                   LET r == search(Table, f)
                   IN  (f.Name # g.Name /\ ~r.panic /\ r.i # 0) =>
                          search(TableNext, f) =
                             result(r.i + 1, r.nameValueMatch)]_vars

\* C19 witness: a plain field was added, after an eviction, to a table that
\* holds an entry with another name.
C19_Witness ==
    /\ last.op = "addEntry"
    /\ ~last.f.Sensitive
    /\ evictCount > 0
    /\ Len(ents) >= 2
    /\ ents[Len(ents)] = last.f
    /\ \E k \in 1..Len(ents) : ents[k].Name # last.f.Name

====
